---- MODULE Spec2Model ----
(***************************************************************************)
(* A model of the lexical search core of irwa-finalproject:                *)
(* src/myapp/search/algorithms.py (text normalizer, synonym expander, the  *)
(* lazily built module-level BM25 index, scorer and ranker) as it is       *)
(* called from src/web_app.py through src/myapp/search/search_engine.py.   *)
(*                                                                         *)
(* Representation.                                                         *)
(*  - A Python str is a sequence of one-character strings; a token is such *)
(*    a sequence without whitespace.                                       *)
(*  - A dict with insertion order (the corpus) is a sequence of Documents  *)
(*    with pairwise different pids.                                        *)
(*  - A float is a fixed-point integer: an idf and a BM25 score are counted*)
(*    in units of 1/SCALE, a final ranking (after the title boost) in units*)
(*    of 1/(BOOST_DEN*SCALE), so that the multiplication by 1.05 is exact. *)
(*    _avgdl is kept as the fraction num/den the code divides.             *)
(*  - A Python list object that is rebound while another thread iterates   *)
(*    it (_doc_ids) lives in a heap, the module global holding a reference.*)
(***************************************************************************)
EXTENDS Integers, Sequences, FiniteSets, TLC

(***************************************************************************)
(* Bounds of the model.                                                    *)
(***************************************************************************)
MaxCalls == 2
MaxLimit == 2
\* fixed-point unit of an idf and of a BM25 score
SCALE == 10000
\* number of terms of the series that approximates ln
LnTerms == 6

(***************************************************************************)
(* Program constants.                                                      *)
(***************************************************************************)
\* _k1 = 1.5 and _b = 0.75 as fractions over K_DEN / B_DEN
K1_NUM == 3
K1_DEN == 2
B_NUM == 3
B_DEN == 4
\* base_score *= 1.05, as the fraction BOOST_NUM / BOOST_DEN
BOOST_NUM == 21
BOOST_DEN == 20
\* num_results: int = 20
DefaultLimit == 20
\* if len(word) <= 3 / len(word) > 4
StemMinLen == 3
StemPluralLen == 4

(***************************************************************************)
(* Text normalizer.                                                        *)
(***************************************************************************)
UpperCase == <<"A","B","C","D","E","F","G","H","I","J","K","L","M",
               "N","O","P","Q","R","S","T","U","V","W","X","Y","Z">>
LowerCase == <<"a","b","c","d","e","f","g","h","i","j","k","l","m",
               "n","o","p","q","r","s","t","u","v","w","x","y","z">>

\* str.split() with no argument splits on runs of these
Whitespace == {" ", "\t", "\n"}

\* c.lower() of one character
LowerChar(c) ==
    IF \E i \in 1..Len(UpperCase) : UpperCase[i] = c
    THEN LowerCase[CHOOSE i \in 1..Len(UpperCase) : UpperCase[i] = c]
    ELSE c

\* text.lower()
Lower(text) == [i \in 1..Len(text) |-> LowerChar(text[i])]

\* text.split() from position i on: the maximal runs of non-whitespace
\* characters, in order
RECURSIVE SplitFrom(_, _)
SplitFrom(text, i) ==
    LET rest == {j \in i..Len(text) : text[j] \notin Whitespace}
    IN  IF rest = {} THEN <<>>
        ELSE LET s == CHOOSE j \in rest : \A m \in rest : j <= m
                 stops == {j \in s..Len(text) :
                             j = Len(text) \/ text[j + 1] \in Whitespace}
                 e == CHOOSE j \in stops : \A m \in stops : j <= m
             IN  <<SubSeq(text, s, e)>> \o SplitFrom(text, e + 1)

Split(text) == SplitFrom(text, 1)

\* word.endswith(suffix)
EndsWith(word, suffix) ==
    /\ Len(word) >= Len(suffix)
    /\ SubSeq(word, Len(word) - Len(suffix) + 1, Len(word)) = suffix

\* word[:-k]
DropLast(word, k) == SubSeq(word, 1, Len(word) - k)

\* a variant whose plural rule takes every word longer than 3 characters
simple_stem_short_plural(word) ==
    IF Len(word) <= StemMinLen THEN word
    ELSE IF EndsWith(word, <<"i","e","s">>) THEN DropLast(word, 3) \o <<"y">>
    ELSE IF EndsWith(word, <<"i","n","g">>) THEN DropLast(word, 3)
    ELSE IF EndsWith(word, <<"e","d">>) THEN DropLast(word, 2)
    ELSE IF EndsWith(word, <<"s">>) /\ Len(word) > StemMinLen THEN DropLast(word, 1)
    ELSE word

simple_stem(word) ==
    IF Len(word) <= StemMinLen THEN word
    ELSE IF EndsWith(word, <<"i","e","s">>) THEN DropLast(word, 3) \o <<"y">>
    ELSE IF EndsWith(word, <<"i","n","g">>) THEN DropLast(word, 3)
    ELSE IF EndsWith(word, <<"e","d">>) THEN DropLast(word, 2)
    ELSE IF EndsWith(word, <<"s">>) /\ Len(word) > StemPluralLen THEN DropLast(word, 1)
    ELSE word


STOPWORDS ==
    { <<"a">>,
      <<"a","n">>,
      <<"a","n","d">>,
      <<"a","t">>,
      <<"b","y">>,
      <<"f","o","r">>,
      <<"f","r","o","m">>,
      <<"i","n">>,
      <<"i","s">>,
      <<"i","t">>,
      <<"o","f">>,
      <<"o","n">>,
      <<"t","h","a","t">>,
      <<"t","h","e">>,
      <<"t","h","i","s">>,
      <<"t","o">>,
      <<"w","i","t","h">> }

\* a variant that stems first and drops the stopwords afterwards
RECURSIVE preprocess_words_filter_after(_)
preprocess_words_filter_after(words) ==
    IF words = <<>> THEN <<>>
    ELSE LET w == Head(words)
         IN  IF w = <<>> \/ simple_stem(w) \in STOPWORDS
             THEN preprocess_words_filter_after(Tail(words))
             ELSE <<simple_stem(w)>> \o preprocess_words_filter_after(Tail(words))

\* the loop of preprocess_text over the words of text.lower().split()
RECURSIVE preprocess_words(_)
preprocess_words(words) ==
    IF words = <<>> THEN <<>>
    ELSE LET w == Head(words)
         IN  IF w = <<>> \/ w \in STOPWORDS
             THEN preprocess_words(Tail(words))
             ELSE <<simple_stem(w)>> \o preprocess_words(Tail(words))

preprocess_text(text) == preprocess_words(Split(Lower(text)))

(***************************************************************************)
(* Synonym expander.                                                       *)
(***************************************************************************)
SYNONYMS ==
    (<<"c","h","e","a","p">> :>
        << <<"a","f","f","o","r","d","a","b","l","e">>,
           <<"i","n","e","x","p","e","n","s","i","v","e">>,
           <<"l","o","w"," ","c","o","s","t">>,
           <<"b","u","d","g","e","t">>,
           <<"l","o","w","-","p","r","i","c","e">> >>) @@
    (<<"a","f","f","o","r","d","a","b","l","e">> :>
        << <<"c","h","e","a","p">>,
           <<"b","u","d","g","e","t">> >>) @@
    (<<"e","x","p","e","n","s","i","v","e">> :>
        << <<"p","r","e","m","i","u","m">>,
           <<"h","i","g","h","-","e","n","d">>,
           <<"l","u","x","u","r","y">>,
           <<"p","r","i","c","e","y">> >>) @@
    (<<"p","r","e","m","i","u","m">> :>
        << <<"l","u","x","u","r","y">>,
           <<"h","i","g","h","-","e","n","d">>,
           <<"e","x","p","e","n","s","i","v","e">> >>) @@
    (<<"c","o","m","f","o","r","t","a","b","l","e">> :>
        << <<"c","o","m","f","y">>,
           <<"s","o","f","t">>,
           <<"r","e","l","a","x","e","d">> >>) @@
    (<<"e","l","e","g","a","n","t">> :>
        << <<"s","t","y","l","i","s","h">>,
           <<"c","l","a","s","s","y">>,
           <<"r","e","f","i","n","e","d">> >>) @@
    (<<"s","p","o","r","t">> :>
        << <<"s","p","o","r","t","s","w","e","a","r">>,
           <<"a","t","h","l","e","t","i","c">>,
           <<"f","i","t","n","e","s","s">> >>) @@
    (<<"c","a","s","u","a","l">> :>
        << <<"e","v","e","r","y","d","a","y">>,
           <<"r","e","l","a","x","e","d">>,
           <<"s","t","r","e","e","t","w","e","a","r">> >>) @@
    (<<"f","o","r","m","a","l">> :>
        << <<"d","r","e","s","s","y">>,
           <<"s","m","a","r","t">>,
           <<"o","f","f","i","c","e">>,
           <<"e","l","e","g","a","n","t">> >>) @@
    (<<"r","e","d">> :>
        << <<"m","a","r","o","o","n">>,
           <<"c","r","i","m","s","o","n">>,
           <<"b","u","r","g","u","n","d","y">> >>) @@
    (<<"b","l","u","e">> :>
        << <<"n","a","v","y">>,
           <<"s","k","y"," ","b","l","u","e">>,
           <<"r","o","y","a","l"," ","b","l","u","e">> >>) @@
    (<<"g","r","e","e","n">> :>
        << <<"o","l","i","v","e">>,
           <<"m","i","n","t">>,
           <<"e","m","e","r","a","l","d">> >>) @@
    (<<"b","l","a","c","k">> :>
        << <<"d","a","r","k">>,
           <<"c","h","a","r","c","o","a","l">> >>) @@
    (<<"w","h","i","t","e">> :>
        << <<"i","v","o","r","y">>,
           <<"c","r","e","a","m">> >>) @@
    (<<"y","e","l","l","o","w">> :>
        << <<"g","o","l","d">>,
           <<"m","u","s","t","a","r","d">> >>) @@
    (<<"p","i","n","k">> :>
        << <<"r","o","s","e">>,
           <<"b","l","u","s","h">> >>) @@
    (<<"b","r","o","w","n">> :>
        << <<"t","a","n">>,
           <<"b","e","i","g","e">>,
           <<"c","a","m","e","l">> >>) @@
    (<<"s","h","o","e","s">> :>
        << <<"s","h","o","e">>,
           <<"s","n","e","a","k","e","r","s">>,
           <<"f","o","o","t","w","e","a","r">>,
           <<"t","r","a","i","n","e","r","s">>,
           <<"r","u","n","n","i","n","g"," ","s","h","o","e","s">> >>) @@
    (<<"s","h","o","e">> :>
        << <<"s","h","o","e","s">>,
           <<"s","n","e","a","k","e","r">>,
           <<"f","o","o","t","w","e","a","r">> >>) @@
    (<<"s","n","e","a","k","e","r","s">> :>
        << <<"r","u","n","n","i","n","g"," ","s","h","o","e","s">>,
           <<"t","r","a","i","n","e","r","s">>,
           <<"s","p","o","r","t","s"," ","s","h","o","e","s">> >>) @@
    (<<"b","o","o","t","s">> :>
        << <<"a","n","k","l","e"," ","b","o","o","t","s">>,
           <<"c","o","m","b","a","t"," ","b","o","o","t","s">>,
           <<"b","o","o","t">> >>) @@
    (<<"p","a","n","t","s">> :>
        << <<"t","r","o","u","s","e","r","s">>,
           <<"b","o","t","t","o","m","s">>,
           <<"s","l","a","c","k","s">> >>) @@
    (<<"t","r","o","u","s","e","r","s">> :>
        << <<"p","a","n","t","s">>,
           <<"b","o","t","t","o","m","w","e","a","r">> >>) @@
    (<<"j","e","a","n","s">> :>
        << <<"d","e","n","i","m">>,
           <<"d","e","n","i","m","s">>,
           <<"s","k","i","n","n","y"," ","j","e","a","n","s">>,
           <<"s","l","i","m"," ","j","e","a","n","s">> >>) @@
    (<<"t","s","h","i","r","t">> :>
        << <<"t","-","s","h","i","r","t">>,
           <<"t","e","e">>,
           <<"t","e","e","s">>,
           <<"t","s","h","i","r","t","s">> >>) @@
    (<<"t","-","s","h","i","r","t">> :>
        << <<"t","e","e">>,
           <<"t","s","h","i","r","t">>,
           <<"s","h","i","r","t">> >>) @@
    (<<"s","h","i","r","t">> :>
        << <<"t","o","p">>,
           <<"b","l","o","u","s","e">> >>) @@
    (<<"d","r","e","s","s">> :>
        << <<"g","o","w","n">>,
           <<"o","n","e","-","p","i","e","c","e">>,
           <<"m","a","x","i"," ","d","r","e","s","s">>,
           <<"m","i","d","i"," ","d","r","e","s","s">> >>) @@
    (<<"j","a","c","k","e","t">> :>
        << <<"c","o","a","t">>,
           <<"o","u","t","e","r","w","e","a","r">>,
           <<"b","l","a","z","e","r">> >>) @@
    (<<"b","a","g">> :>
        << <<"h","a","n","d","b","a","g">>,
           <<"p","u","r","s","e">>,
           <<"t","o","t","e">> >>) @@
    (<<"w","o","m","e","n">> :>
        << <<"w","o","m","a","n">>,
           <<"l","a","d","i","e","s">>,
           <<"f","e","m","a","l","e">> >>) @@
    (<<"m","e","n">> :>
        << <<"m","a","n">>,
           <<"m","a","l","e">>,
           <<"m","e","n","s">> >>) @@
    (<<"k","i","d","s">> :>
        << <<"c","h","i","l","d","r","e","n">>,
           <<"c","h","i","l","d">>,
           <<"b","o","y">>,
           <<"g","i","r","l">> >>)

\* " ".join(parts)
RECURSIVE Join(_)
Join(parts) ==
    IF parts = <<>> THEN <<>>
    ELSE IF Len(parts) = 1 THEN Head(parts)
    ELSE Head(parts) \o <<" ">> \o Join(Tail(parts))

\* the loop "for w in query.split()" appending to expanded_query
RECURSIVE ExpandWords(_, _)
ExpandWords(expanded, words) ==
    IF words = <<>> THEN expanded
    ELSE LET wl == Lower(Head(words))
         IN  IF wl \in DOMAIN SYNONYMS
             THEN ExpandWords(expanded \o <<" ">> \o Join(SYNONYMS[wl]), Tail(words))
             ELSE ExpandWords(expanded, Tail(words))

\* a variant that puts the synonyms in the place of the query
expanded_query_synonyms_only(query) == ExpandWords(<<>>, Split(query))

expanded_query(query) == ExpandWords(Lower(query), Split(query))

\* query_terms = preprocess_text(expanded_query)
query_terms_of(query) == preprocess_text(expanded_query(query))

(***************************************************************************)
(* Documents and corpora.                                                  *)
(***************************************************************************)
\* a text field that is None (or absent) in the dataset
NoneText == <<"None">>

\* the "x or ''" of the text_parts and of the title
OrEmpty(x) == IF x = NoneText \/ x = <<>> THEN <<>> ELSE x

\* str(x) of a text part: the part itself, it is a str already
Doc(pid, title, description, brand, category, sub_category) ==
    [pid |-> pid, title |-> title, description |-> description,
     brand |-> brand, category |-> category, sub_category |-> sub_category]

DocP1 == Doc("P1", <<"B","l","u","e"," ","R","u","n","n","i","n","g"," ","S","h","o","e","s">>,
             <<"C","o","m","f","o","r","t","a","b","l","e"," ","s","p","o","r","t"," ","s","h","o","e">>,
             <<>>, <<>>, <<>>)
DocP2 == Doc("P2", <<"R","e","d"," ","D","r","e","s","s">>, NoneText, <<>>, <<>>, <<>>)
DocP3 == Doc("P3", <<"T","h","e">>, NoneText, NoneText, <<"o","f">>, <<>>)
DocP4 == Doc("P4", <<"R","e","d"," ","S","k","i","r","t">>, <<>>, <<>>, <<>>, NoneText)

AllDocs == <<DocP1, DocP2, DocP3, DocP4>>

\* the attributes of a document that _build_bm25_index reads (lines 147-151)
TextFields == {"title", "description", "brand", "category", "sub_category"}

\* reading a text field of doc raises no AttributeError
HasFields(doc) == TextFields \subseteq DOMAIN doc

\* an object without the attribute category
DocP5 ==
    [pid |-> "P5", title |-> <<"G","r","e","e","n"," ","H","a","t">>,
     description |-> <<>>, brand |-> <<>>, sub_category |-> <<>>]

\* a corpus with a document that lacks a text field
Malformed(c) == \E k \in 1..Len(c) : ~HasFields(c[k])

\* the largest corpus of the model
MaxDocs == 2

\* a corpus: a dict pid -> Document in insertion order, its keys unique; the
\* documents are inserted in the order of the dataset (load_corpus), which is
\* any order
Corpora ==
    { c \in UNION {[1..n -> {AllDocs[k] : k \in 1..Len(AllDocs)}] : n \in 0..MaxDocs} :
        \A i, j \in 1..Len(c) : i # j => c[i].pid # c[j].pid }

\* the dicts a caller of search_in_corpus can pass: Documents and objects
\* that lack a field, in any order
AnyCorpora ==
    { c \in UNION {[1..n -> {AllDocs[k] : k \in 1..Len(AllDocs)} \cup {DocP5}] :
                      n \in 0..MaxDocs} :
        \A i, j \in 1..Len(c) : i # j => c[i].pid # c[j].pid }

\* doc_id in corpus
HasKey(corpus, doc_id) == \E i \in 1..Len(corpus) : corpus[i].pid = doc_id

\* corpus[doc_id], for a key the corpus has
Lookup(corpus, doc_id) == corpus[CHOOSE i \in 1..Len(corpus) : corpus[i].pid = doc_id]

QCheapShoes == <<"c","h","e","a","p"," ","s","h","o","e","s">>
QRed == <<"R","e","d">>
QRedSkirt == <<"r","e","d"," ","s","k","i","r","t">>
QSport == <<"s","p","o","r","t">>
QThe == <<"t","h","e"," ">>
QZebra == <<"z","e","b","r","a">>
QEmpty == <<>>

Queries == {QCheapShoes, QRed, QRedSkirt, QSport, QThe, QZebra, QEmpty}

\* the values of num_results; the web application always takes the default
Limits == (0..MaxLimit) \cup {DefaultLimit}

(***************************************************************************)
(* Arithmetic of the scorer, in fixed point.                               *)
(***************************************************************************)
\* ln 2 in units of 1/SCALE
LN2 == (6931 * SCALE) \div 10000

\* 2 * (z + z^3/3 + z^5/5 + ...), z and the result in units of 1/SCALE
RECURSIVE AtanhSeries(_, _, _)
AtanhSeries(z, pow, k) ==
    IF k >= LnTerms THEN 0
    ELSE (2 * pow) \div (2 * k + 1)
         + AtanhSeries(z, (((pow * z) \div SCALE) * z) \div SCALE, k + 1)

\* math.log(p / q) for integers p, q > 0, in units of 1/SCALE:
\* ln x = ln 2 + ln (x/2) while x > 2, ln x = -ln (1/x) for x < 1, and
\* ln x = 2 atanh((x - 1) / (x + 1)) on [1, 2]
RECURSIVE math_log(_, _)
math_log(p, q) ==
    IF p < q THEN 0 - math_log(q, p)
    ELSE IF p > 2 * q THEN LN2 + math_log(p, 2 * q)
    ELSE LET z == ((p - q) * SCALE) \div (p + q)
         IN  AtanhSeries(z, z, 0)

\* a variant that leaves out the "+ 1" inside the logarithm
idf_without_plus_one(N, n_qi) == math_log(2 * N - 2 * n_qi + 1, 2 * n_qi + 1)

\* idf = math.log((N - n_qi + 0.5) / (n_qi + 0.5) + 1), numerator and
\* denominator doubled: ((2N - 2n + 1) + (2n + 1)) / (2n + 1)
idf(N, n_qi) == math_log((2 * N - 2 * n_qi + 1) + (2 * n_qi + 1), 2 * n_qi + 1)

\* (f * (_k1 + 1)) / denom with denom = f + _k1 * (1 - _b + _b * dl / _avgdl)
\* and _avgdl = a.num / a.den, as one fraction of integers:
\*   numerator    f * (K1_NUM + K1_DEN) * B_DEN * a.num
\*   denominator  f * K1_DEN * B_DEN * a.num
\*                + K1_NUM * ((B_DEN - B_NUM) * a.num + B_NUM * dl * a.den)
tf_num(f, dl, a) == f * (K1_NUM + K1_DEN) * B_DEN * a.num
tf_den(f, dl, a) ==
    f * K1_DEN * B_DEN * a.num
    + K1_NUM * ((B_DEN - B_NUM) * a.num + B_NUM * dl * a.den)

\* idf * ((f * (_k1 + 1)) / denom), in units of 1/SCALE
contribution(N, n_qi, f, dl, a) ==
    (idf(N, n_qi) * tf_num(f, dl, a)) \div tf_den(f, dl, a)

(***************************************************************************)
(* State.                                                                  *)
(***************************************************************************)
\* the largest number of request threads of the web server
MaxThreads == 2
\* the largest corpus of the specification with concurrent calls
MaxRaceDocs == 1

Threads == 1..MaxThreads

VARIABLES
    bm25_ready,     \* _bm25_ready
    doc_ids,        \* _doc_ids: a reference into heap
    heap,           \* the list objects _doc_ids was ever bound to
    doc_texts,      \* _doc_texts
    freqs,          \* _freqs: a list of dicts term -> count
    doc_lengths,    \* _doc_lengths
    avgdl,          \* _avgdl as the fraction num / den
    corpus,         \* web_app.corpus, loaded once at process start
    workers,        \* the threads that serve calls
    any_corpus,     \* FALSE: every call passes the corpus of the process, as
                    \* web_app.search does; TRUE: a call passes any corpus
    calls_left,     \* the calls of search_in_corpus still to come
    th,             \* per thread: the position and the locals of its call
    n_builds,       \* how often the body of _build_bm25_index was entered
    fn,             \* a function of algorithms.py, its argument and its value
    clicks,         \* AnalyticsData.clicks: the list of ClickEvents
    fact_clicks,    \* AnalyticsData.fact_clicks: pid -> count
    last_op         \* the latest call on the AnalyticsData

vars == <<bm25_ready, doc_ids, heap, doc_texts, freqs, doc_lengths, avgdl,
          corpus, workers, any_corpus, calls_left, th, n_builds,
          fn, clicks, fact_clicks, last_op>>

analytics == <<clicks, fact_clicks, last_op>>

env == <<corpus, workers, any_corpus, calls_left, fn, analytics>>

index == <<bm25_ready, doc_ids, heap, doc_texts, freqs, doc_lengths, avgdl>>

\* the locals of a thread that is not in a call
Idle ==
    [pc |-> "idle", query |-> <<>>, corpus |-> <<>>, num_results |-> 0,
     query_terms |-> <<>>, i |-> 0, tokens |-> <<>>, freq |-> <<>>,
     it |-> 0, idx |-> 0, scores |-> <<>>, raw |-> <<>>,
     results |-> <<>>, error |-> "none"]

\* no function is being applied
NoCall == [op |-> "none", arg |-> <<>>, out |-> <<>>, done |-> TRUE]

\* dwell_time of a ClickEvent that has none
None == <<>>

\* no call on the AnalyticsData yet
NoOp == [op |-> "none", session_id |-> "", pid |-> "", dwell_time |-> None]

\* AnalyticsData.__init__ (lines 60, 63)
InitAnalytics ==
    /\ clicks = <<>>
    /\ fact_clicks = <<>>
    /\ last_op = NoOp

\* module load of algorithms.py (lines 124-131) and of web_app.py (line 43)
InitIndex ==
    /\ bm25_ready = FALSE
    /\ heap = << <<>> >>
    /\ doc_ids = 1
    /\ doc_texts = <<>>
    /\ freqs = <<>>
    /\ doc_lengths = <<>>
    /\ avgdl = [num |-> 0, den |-> 1]
    /\ n_builds = 0
    /\ calls_left = MaxCalls
    /\ th = [t \in Threads |-> Idle]
    /\ InitAnalytics

\* concurrent calls on the corpus of the process: the web application under
\* its threaded server
Init ==
    /\ InitIndex
    /\ corpus \in {c \in Corpora : Len(c) <= MaxRaceDocs}
    /\ workers = Threads
    /\ any_corpus = FALSE
    /\ fn = NoCall

\* one call at a time on the corpus of the process
InitSeq ==
    /\ InitIndex
    /\ corpus \in Corpora
    /\ workers = {1}
    /\ any_corpus = FALSE
    /\ fn = NoCall

\* one call at a time, each with a corpus of its own
InitLib ==
    /\ InitIndex
    /\ corpus = <<>>
    /\ workers = {1}
    /\ any_corpus = TRUE
    /\ fn = NoCall

(***************************************************************************)
(* _build_bm25_index, statement by statement.                              *)
(***************************************************************************)
Set(t, r) == th' = [th EXCEPT ![t] = r]

\* sum(lst)
RECURSIVE Sum(_)
Sum(lst) == IF lst = <<>> THEN 0 ELSE Head(lst) + Sum(Tail(lst))

Max(a, b) == IF a >= b THEN a ELSE b

\* the text blob of a document (lines 146-153)
joined(doc) ==
    Join(<<OrEmpty(doc.title), OrEmpty(doc.description), OrEmpty(doc.brand),
           OrEmpty(doc.category), OrEmpty(doc.sub_category)>>)

\* the dict term -> count of lines 156-158
freq_of(tokens) ==
    [tk \in {tokens[k] : k \in 1..Len(tokens)} |->
        Cardinality({k \in 1..Len(tokens) : tokens[k] = tk})]

\* a call search_in_corpus(query, corpus, search_id, num_results) arrives at
\* _build_bm25_index(corpus) (line 213). query is read by thread-local
\* statements only (lines 204-210) and num_results at line 234: each is drawn
\* where the shared index is next touched after it, in ScoreStart and in
\* SortTruncate
Call(t) ==
    /\ t \in workers
    /\ th[t].pc = "idle"
    /\ calls_left > 0
    /\ calls_left' = calls_left - 1
    /\ \E c \in AnyCorpora :
          /\ any_corpus \/ c = corpus
          /\ Set(t, [Idle EXCEPT !.pc = "build_check", !.corpus = c])
    /\ UNCHANGED <<index, corpus, workers, any_corpus, n_builds, fn, analytics>>

\* a variant without the guard of lines 137-138: every call rebuilds
BuildCheckNoGuard(t) ==
    /\ th[t].pc = "build_check"
    /\ Set(t, [th[t] EXCEPT !.pc = "reset_doc_ids"])
    /\ n_builds' = n_builds + 1
    /\ UNCHANGED <<index, env>>

\* a variant that takes lists with entries for a built index
BuildCheckNonEmpty(t) ==
    /\ th[t].pc = "build_check"
    /\ IF bm25_ready \/ Len(heap[doc_ids]) > 0
       THEN /\ Set(t, [th[t] EXCEPT !.pc = "score_start"])
            /\ UNCHANGED n_builds
       ELSE /\ Set(t, [th[t] EXCEPT !.pc = "reset_doc_ids"])
            /\ n_builds' = n_builds + 1
    /\ UNCHANGED <<index, env>>

\* if _bm25_ready: return (lines 137-138)
BuildCheck(t) ==
    /\ th[t].pc = "build_check"
    /\ IF bm25_ready
       THEN /\ Set(t, [th[t] EXCEPT !.pc = "score_start"])
            /\ UNCHANGED n_builds
       ELSE /\ Set(t, [th[t] EXCEPT !.pc = "reset_doc_ids"])
            /\ n_builds' = n_builds + 1
    /\ UNCHANGED <<index, env>>

\* _doc_ids = []; _doc_texts = []; _freqs = []; _doc_lengths = [] (lines 140-143)
BuildReset(t) ==
    /\ th[t].pc \in {"reset_doc_ids", "reset_doc_texts", "reset_freqs", "reset_doc_lengths"}
    /\ CASE th[t].pc = "reset_doc_ids" ->
              /\ heap' = Append(heap, <<>>)
              /\ doc_ids' = Len(heap) + 1
              /\ Set(t, [th[t] EXCEPT !.pc = "reset_doc_texts"])
              /\ UNCHANGED <<doc_texts, freqs, doc_lengths>>
         [] th[t].pc = "reset_doc_texts" ->
              /\ doc_texts' = <<>>
              /\ Set(t, [th[t] EXCEPT !.pc = "reset_freqs"])
              /\ UNCHANGED <<heap, doc_ids, freqs, doc_lengths>>
         [] th[t].pc = "reset_freqs" ->
              /\ freqs' = <<>>
              /\ Set(t, [th[t] EXCEPT !.pc = "reset_doc_lengths"])
              /\ UNCHANGED <<heap, doc_ids, doc_texts, doc_lengths>>
         [] th[t].pc = "reset_doc_lengths" ->
              /\ doc_lengths' = <<>>
              /\ Set(t, [th[t] EXCEPT !.pc = "for_doc", !.i = 0])
              /\ UNCHANGED <<heap, doc_ids, doc_texts, freqs>>
    /\ UNCHANGED <<bm25_ready, avgdl, env, n_builds>>

\* the head of "for doc_id, doc in corpus.items()" and the local part of its
\* body (lines 145-158), then _doc_ids.append(doc_id) (line 160); a missing
\* attribute raises at lines 147-151 and the exception leaves
\* _build_bm25_index and search_in_corpus, neither of which catches it
BuildDoc(t) ==
    /\ th[t].pc = "for_doc"
    /\ IF th[t].i >= Len(th[t].corpus)
       THEN /\ Set(t, [th[t] EXCEPT !.pc = "avgdl"])
            /\ UNCHANGED heap
       ELSE IF ~HasFields(th[t].corpus[th[t].i + 1])
       THEN /\ Set(t, [th[t] EXCEPT !.pc = "raised", !.error = "AttributeError"])
            /\ UNCHANGED heap
       ELSE LET doc == th[t].corpus[th[t].i + 1]
                tokens == preprocess_text(joined(doc))
            IN  /\ heap' = [heap EXCEPT ![doc_ids] = Append(@, doc.pid)]
                /\ Set(t, [th[t] EXCEPT !.pc = "append_doc_texts",
                                        !.tokens = tokens,
                                        !.freq = freq_of(tokens)])
    /\ UNCHANGED <<bm25_ready, doc_ids, doc_texts, freqs, doc_lengths, avgdl,
                   env, n_builds>>

\* _doc_texts.append(tokens); _freqs.append(freq);
\* _doc_lengths.append(len(tokens)) (lines 161-163)
BuildAppend(t) ==
    /\ th[t].pc \in {"append_doc_texts", "append_freqs", "append_doc_lengths"}
    /\ CASE th[t].pc = "append_doc_texts" ->
              /\ doc_texts' = Append(doc_texts, th[t].tokens)
              /\ Set(t, [th[t] EXCEPT !.pc = "append_freqs"])
              /\ UNCHANGED <<freqs, doc_lengths>>
         [] th[t].pc = "append_freqs" ->
              /\ freqs' = Append(freqs, th[t].freq)
              /\ Set(t, [th[t] EXCEPT !.pc = "append_doc_lengths"])
              /\ UNCHANGED <<doc_texts, doc_lengths>>
         [] th[t].pc = "append_doc_lengths" ->
              /\ doc_lengths' = Append(doc_lengths, Len(th[t].tokens))
              /\ Set(t, [th[t] EXCEPT !.pc = "for_doc", !.i = @ + 1,
                                      !.tokens = <<>>, !.freq = <<>>])
              /\ UNCHANGED <<doc_texts, freqs>>
    /\ UNCHANGED <<bm25_ready, doc_ids, heap, avgdl, env, n_builds>>

\* _avgdl = sum(_doc_lengths) / max(len(_doc_lengths), 1) (line 165)
BuildAvgdl(t) ==
    /\ th[t].pc = "avgdl"
    /\ avgdl' = [num |-> Sum(doc_lengths), den |-> Max(Len(doc_lengths), 1)]
    /\ Set(t, [th[t] EXCEPT !.pc = "set_ready"])
    /\ UNCHANGED <<bm25_ready, doc_ids, heap, doc_texts, freqs, doc_lengths,
                   env, n_builds>>

\* _bm25_ready = True (line 166), and the return to search_in_corpus
BuildReady(t) ==
    /\ th[t].pc = "set_ready"
    /\ bm25_ready' = TRUE
    /\ Set(t, [th[t] EXCEPT !.pc = "score_start"])
    /\ UNCHANGED <<doc_ids, heap, doc_texts, freqs, doc_lengths, avgdl,
                   env, n_builds>>

(***************************************************************************)
(* _bm25_score and the ranking loop of search_in_corpus.                   *)
(***************************************************************************)
\* the module globals a scoring statement reads, as they are now
current_index ==
    [ids |-> heap[doc_ids], freqs |-> freqs, doc_lengths |-> doc_lengths,
     avgdl |-> avgdl]

\* n_qi = sum(1 for d in _freqs if term in d) (line 181)
n_qi(term, ix) ==
    Cardinality({k \in 1..Len(ix.freqs) : term \in DOMAIN ix.freqs[k]})

\* the loop "for term in query_terms" (lines 176-185) over the index ix;
\* N = len(_doc_ids) (line 174)
RECURSIVE score_terms(_, _, _, _, _)
score_terms(terms, freq, dl, score, ix) ==
    IF terms = <<>> THEN [error |-> "none", score |-> score]
    ELSE LET term == Head(terms)
         IN  IF term \notin DOMAIN freq
             THEN score_terms(Tail(terms), freq, dl, score, ix)
             ELSE IF ix.avgdl.num = 0
                  THEN [error |-> "ZeroDivisionError", score |-> score]
                  ELSE score_terms(Tail(terms), freq, dl,
                          score + contribution(Len(ix.ids), n_qi(term, ix),
                                               freq[term], dl, ix.avgdl),
                          ix)

\* _bm25_score(query_terms, index) over the index ix, index counted from 0
\* (lines 169-187)
bm25(query_terms, idx, ix) ==
    IF idx >= Len(ix.freqs) \/ idx >= Len(ix.doc_lengths)
    THEN [error |-> "IndexError", score |-> 0]
    ELSE score_terms(query_terms, ix.freqs[idx + 1], ix.doc_lengths[idx + 1], 0, ix)

\* _bm25_score(query_terms, index) as the code calls it, on the module globals
bm25_score(query_terms, idx) == bm25(query_terms, idx, current_index)

\* a variant that keeps the documents of score 0
skipped_below_zero(base_score) == base_score < 0

\* if base_score <= 0: continue (lines 218-219)
skipped(base_score) == base_score <= 0

\* any(t in title_words for t in query_terms) (lines 226-227)
title_match(query_terms, doc) ==
    LET title_words == preprocess_text(OrEmpty(doc.title))
    IN  \E k \in 1..Len(query_terms) :
            \E m \in 1..Len(title_words) : title_words[m] = query_terms[k]

\* a variant that boosts a second time when two query terms match the title
boosted_per_term(base_score, query_terms, doc) ==
    LET title_words == preprocess_text(OrEmpty(doc.title))
        hits == {k \in 1..Len(query_terms) :
                    \E m \in 1..Len(title_words) : title_words[m] = query_terms[k]}
    IN  IF Cardinality(hits) >= 2
        THEN (base_score * BOOST_NUM * BOOST_NUM) \div BOOST_DEN
        ELSE IF Cardinality(hits) = 1 THEN base_score * BOOST_NUM
        ELSE base_score * BOOST_DEN

\* base_score *= 1.05 when the title matches (lines 226-228); the result is
\* in units of 1/(BOOST_DEN * SCALE)
boosted(base_score, query_terms, doc) ==
    IF title_match(query_terms, doc)
    THEN base_score * BOOST_NUM
    ELSE base_score * BOOST_DEN

\* query_terms (lines 204-210), scores = [] and the iterator of
\* "for idx, doc_id in enumerate(_doc_ids)", which keeps the list object
\* _doc_ids is bound to now (lines 215-216)
ScoreStart(t) ==
    /\ th[t].pc = "score_start"
    /\ \E q \in Queries :
          Set(t, [th[t] EXCEPT !.pc = "score_loop", !.query = q,
                               !.query_terms = query_terms_of(q),
                               !.it = doc_ids, !.idx = 0,
                               !.scores = <<>>, !.raw = <<>>])
    /\ UNCHANGED <<index, env, n_builds>>

\* one iteration of the ranking loop (lines 216-230); raw keeps the value of
\* base_score before the boost, entry by entry
ScoreDoc(t) ==
    /\ th[t].pc = "score_loop"
    /\ IF th[t].idx >= Len(heap[th[t].it])
       THEN Set(t, [th[t] EXCEPT !.pc = "sort"])
       ELSE LET doc_id == heap[th[t].it][th[t].idx + 1]
                s == bm25_score(th[t].query_terms, th[t].idx)
            IN  IF s.error # "none"
                THEN Set(t, [th[t] EXCEPT !.pc = "raised", !.error = s.error])
                ELSE IF skipped(s.score)
                THEN Set(t, [th[t] EXCEPT !.idx = @ + 1])
                ELSE IF ~HasKey(th[t].corpus, doc_id)
                THEN Set(t, [th[t] EXCEPT !.pc = "raised", !.error = "KeyError"])
                ELSE LET doc == Lookup(th[t].corpus, doc_id)
                         final == boosted(s.score, th[t].query_terms, doc)
                     IN  Set(t, [th[t] EXCEPT
                                   !.idx = @ + 1,
                                   !.raw = Append(@, s.score),
                                   !.scores = Append(@, [score |-> final,
                                                         doc_id |-> doc_id])])
    /\ UNCHANGED <<index, env, n_builds>>

\* a variant without reverse=True: ascending by score
RECURSIVE sort_asc(_)
sort_asc(s) ==
    IF s = <<>> THEN <<>>
    ELSE LET rest == sort_asc(SubSeq(s, 1, Len(s) - 1))
             x == s[Len(s)]
             k == Cardinality({m \in 1..Len(rest) : rest[m].score <= x.score})
         IN  SubSeq(rest, 1, k) \o <<x>> \o SubSeq(rest, k + 1, Len(rest))

\* a variant that is not stable: elements of equal score change places
RECURSIVE sort_desc_ties_reversed(_)
sort_desc_ties_reversed(s) ==
    IF s = <<>> THEN <<>>
    ELSE LET rest == sort_desc_ties_reversed(SubSeq(s, 1, Len(s) - 1))
             x == s[Len(s)]
             k == Cardinality({m \in 1..Len(rest) : rest[m].score > x.score})
         IN  SubSeq(rest, 1, k) \o <<x>> \o SubSeq(rest, k + 1, Len(rest))

\* list.sort(reverse=True, key=lambda x: x[0]): descending by score, elements
\* of equal score staying in their order
RECURSIVE sort_desc(_)
sort_desc(s) ==
    IF s = <<>> THEN <<>>
    ELSE LET rest == sort_desc(SubSeq(s, 1, Len(s) - 1))
             x == s[Len(s)]
             k == Cardinality({m \in 1..Len(rest) : rest[m].score >= x.score})
         IN  SubSeq(rest, 1, k) \o <<x>> \o SubSeq(rest, k + 1, Len(rest))

\* a variant that cuts one element late
truncate_one_late(s, n) == SubSeq(s, 1, IF n + 1 < Len(s) THEN n + 1 ELSE Len(s))

\* scores[:num_results] for num_results >= 0
truncate(s, n) == SubSeq(s, 1, IF n < Len(s) THEN n ELSE Len(s))

\* the result records of lines 236-246
records(s, c) ==
    [r \in 1..Len(s) |->
        LET doc == Lookup(c, s[r].doc_id)
        IN  [pid |-> doc.pid, title |-> doc.title,
             description |-> doc.description,
             ranking |-> s[r].score, rank_position |-> r]]

\* sort, truncate and package (lines 233-248); scores keeps the list as the
\* ranking loop left it
SortTruncate(t) ==
    /\ th[t].pc = "sort"
    /\ \E n \in Limits :
          LET top == truncate(sort_desc(th[t].scores), n)
          IN  Set(t, [th[t] EXCEPT !.pc = "done", !.num_results = n,
                                   !.results = records(top, th[t].corpus)])
    /\ UNCHANGED <<index, env, n_builds>>

\* the caller takes the list or the exception; the locals are gone
Return(t) ==
    /\ th[t].pc \in {"done", "raised"}
    /\ Set(t, Idle)
    /\ UNCHANGED <<index, env, n_builds>>

Next ==
    \E t \in Threads :
        \/ Call(t)
        \/ BuildCheck(t)
        \/ BuildReset(t)
        \/ BuildDoc(t)
        \/ BuildAppend(t)
        \/ BuildAvgdl(t)
        \/ BuildReady(t)
        \/ ScoreStart(t)
        \/ ScoreDoc(t)
        \/ SortTruncate(t)
        \/ Return(t)

Spec == Init /\ [][Next]_vars

SeqSpec == InitSeq /\ [][Next]_vars

LibSpec == InitLib /\ [][Next]_vars

(***************************************************************************)
(* The functions of algorithms.py applied on their own: the argument is    *)
(* drawn at the start, one step applies the function.                      *)
(***************************************************************************)
\* the longest word over StemAlphabet
MaxWordLen == 4
\* the largest number of synonym keys in a query
MaxKeys == 2
\* the largest document count N of an idf argument
MaxN == 12

StemAlphabet == {"e", "d", "i", "n", "g", "s"}

\* the words over StemAlphabet of 1 .. MaxWordLen letters
AlphabetWords == UNION {[1..n -> StemAlphabet] : n \in 1..MaxWordLen}

StemLiterals ==
    {<<"p","a","r","t","i","e","s">>,
     <<"r","u","n","n","i","n","g">>,
     <<"p","l","a","y","e","d">>,
     <<"c","a","t","s">>,
     <<"b","u","s">>,
     <<"s","h","o","e","s">>,
     <<"b","o","x","e","s">>,
     <<"d","r","e","s","s">>,
     <<"f","i","t","n","e","s","s">>,
     <<"t","o","e","d">>,
     <<"t","h","a","t","s">>,
     <<"b","i","e","s">>,
     <<"i","e","s">>,
     <<"s","i","n","g">>,
     <<"c","l","a","s","s","e","s">>}

\* the arguments of simple_stem
Words == AlphabetWords \cup StemLiterals

TextWords ==
    {<<"T","h","e">>,
     <<"t","o","e","d">>,
     <<"S","h","o","e","s">>,
     <<"t","h","a","t","s">>,
     <<"o","f">>,
     <<"p","a","r","t","i","e","s">>,
     <<"i","s">>,
     <<"i","t","i","n","g">>,
     <<"R","u","n","n","i","n","g">>,
     <<"A","N","D">>,
     <<"b","i","e","s">>,
     <<"d","r","e","s","s">>,
     <<"a">>,
     <<"p","l","a","y","e","d">>}

Separators == {<<" ">>, <<" ", " ">>, <<"\t">>, <<" ", "\n">>}

\* the arguments of preprocess_text: nothing, blanks, one word, two words
Texts ==
    {<<>>, <<" ">>} \cup AlphabetWords \cup TextWords
        \cup {a \o sep \o b : a \in TextWords, sep \in Separators, b \in TextWords}
        \cup {<<" ">> \o a \o <<" ">> : a \in TextWords}

\* the queries of n synonym keys
RECURSIVE KeyQueriesOf(_)
KeyQueriesOf(n) ==
    IF n = 1 THEN DOMAIN SYNONYMS
    ELSE {q \o <<" ">> \o k : q \in KeyQueriesOf(n - 1), k \in DOMAIN SYNONYMS}

\* the queries made of synonym keys only, 1 .. MaxKeys of them
KeyQueries == UNION {KeyQueriesOf(n) : n \in 1..MaxKeys} \cup {QRed}

\* the arguments (N, n_qi) of idf with 0 < n_qi <= N
IdfArgs == {a \in (1..MaxN) \X (1..MaxN) : a[2] <= a[1]}

Pending(op, arg) == [op |-> op, arg |-> arg, out |-> <<>>, done |-> FALSE]

\* one function and one argument; nothing else runs
InitPure ==
    /\ InitIndex
    /\ corpus = <<>>
    /\ workers = {}
    /\ any_corpus = FALSE
    /\ fn \in {Pending("simple_stem", w) : w \in Words}
            \cup {Pending("preprocess_text", x) : x \in Texts}
            \cup {Pending("query_terms", q) : q \in KeyQueries}
            \cup {Pending("idf", a) : a \in IdfArgs}

Applied(out) ==
    /\ fn' = [fn EXCEPT !.out = out, !.done = TRUE]
    /\ UNCHANGED <<index, corpus, workers, any_corpus, calls_left, th, n_builds,
                   analytics>>

\* simple_stem(word) (lines 25-42)
StemCall ==
    /\ fn.op = "simple_stem" /\ ~fn.done
    /\ Applied(simple_stem(fn.arg))

\* preprocess_text(text) (lines 107-117)
PreprocessCall ==
    /\ fn.op = "preprocess_text" /\ ~fn.done
    /\ Applied(preprocess_text(fn.arg))

\* the query terms of search_in_corpus (lines 204-210)
QueryTermsCall ==
    /\ fn.op = "query_terms" /\ ~fn.done
    /\ Applied(query_terms_of(fn.arg))

\* idf of _bm25_score (line 183) for N documents, n_qi of them with the term
IdfCall ==
    /\ fn.op = "idf" /\ ~fn.done
    /\ Applied(idf(fn.arg[1], fn.arg[2]))

NextPure == StemCall \/ PreprocessCall \/ QueryTermsCall \/ IdfCall

PureSpec == InitPure /\ [][NextPure]_vars

(***************************************************************************)
(* AnalyticsData: the click log and the click counters.                    *)
(***************************************************************************)
\* the longest click log
MaxClicks == 3
\* the largest dwell time, in seconds
MaxDwell == 2

SessionIds == {"s1", "s2"}
ClickPids == {"P1", "P2"}
\* a dwell time d is <<d>>, apart from None
DwellTimes == {<<d>> : d \in 1..MaxDwell}

\* ClickEvent(...) of register_click (lines 197-204); timestamp, query and
\* rank are set here and read by no method that changes the log
ClickEvent(session_id, pid, dwell_time) ==
    [session_id |-> session_id, pid |-> pid, dwell_time |-> dwell_time]

\* self.fact_clicks.get(pid, 0)
fact_clicks_get(pid) == IF pid \in DOMAIN fact_clicks THEN fact_clicks[pid] ELSE 0

\* the rest of the program state, which the AnalyticsData does not touch
search_state == <<index, corpus, workers, any_corpus, calls_left, th, n_builds, fn>>

\* a variant that starts the counter of the document again
register_click_count_reset(session_id, pid, dwell_time) ==
    /\ Len(clicks) < MaxClicks
    /\ clicks' = Append(clicks, ClickEvent(session_id, pid, dwell_time))
    /\ fact_clicks' = [p \in DOMAIN fact_clicks \cup {pid} |->
                          IF p = pid THEN 1 ELSE fact_clicks[p]]
    /\ last_op' = [op |-> "register_click", session_id |-> session_id,
                   pid |-> pid, dwell_time |-> dwell_time]
    /\ UNCHANGED search_state

\* AnalyticsData.register_click (lines 192-208)
register_click(session_id, pid, dwell_time) ==
    /\ Len(clicks) < MaxClicks
    /\ clicks' = Append(clicks, ClickEvent(session_id, pid, dwell_time))
    /\ fact_clicks' = [p \in DOMAIN fact_clicks \cup {pid} |->
                          IF p = pid THEN fact_clicks_get(pid) + 1
                          ELSE fact_clicks[p]]
    /\ last_op' = [op |-> "register_click", session_id |-> session_id,
                   pid |-> pid, dwell_time |-> dwell_time]
    /\ UNCHANGED search_state

\* the events that the loop over reversed(self.clicks) stops at (line 215)
Open(session_id, pid) ==
    {k \in 1..Len(clicks) : /\ clicks[k].session_id = session_id
                            /\ clicks[k].pid = pid
                            /\ clicks[k].dwell_time = None}

\* the largest element of a set of numbers that is not empty
Last(S) == CHOOSE k \in S : \A j \in S : j <= k

\* AnalyticsData.update_last_click_dwell (lines 210-217)
update_last_click_dwell(session_id, pid, dwell_time) ==
    /\ IF Open(session_id, pid) = {}
       THEN clicks' = clicks
       ELSE clicks' = [clicks EXCEPT ![Last(Open(session_id, pid))].dwell_time =
                                          dwell_time]
    /\ last_op' = [op |-> "update_last_click_dwell", session_id |-> session_id,
                   pid |-> pid, dwell_time |-> dwell_time]
    /\ UNCHANGED <<fact_clicks, search_state>>

\* total_clicks of get_basic_kpis (line 247)
total_clicks == Len(clicks)

\* a fresh AnalyticsData; no search runs
InitClicks ==
    /\ InitIndex
    /\ corpus = <<>>
    /\ workers = {}
    /\ any_corpus = FALSE
    /\ fn = NoCall

NextClicks ==
    \E session_id \in SessionIds : \E pid \in ClickPids :
        \/ \E dwell_time \in DwellTimes \cup {None} :
              register_click(session_id, pid, dwell_time)
        \/ \E dwell_time \in DwellTimes :
              update_last_click_dwell(session_id, pid, dwell_time)

ClickSpec == InitClicks /\ [][NextClicks]_vars

(***************************************************************************)
(* What a call returns in a process whose index is still unbuilt: the      *)
(* build of lines 140-166 and the ranking of lines 215-248 run without     *)
(* interruption on the corpus of the call.                                 *)
(***************************************************************************)
tokens_of(doc) == preprocess_text(joined(doc))

fresh_index(c) ==
    [ids |-> [k \in 1..Len(c) |-> c[k].pid],
     freqs |-> [k \in 1..Len(c) |-> freq_of(tokens_of(c[k]))],
     doc_lengths |-> [k \in 1..Len(c) |-> Len(tokens_of(c[k]))],
     avgdl |-> [num |-> Sum([k \in 1..Len(c) |-> Len(tokens_of(c[k]))]),
                den |-> Max(Len(c), 1)]]

RECURSIVE fresh_scores(_, _, _, _, _)
fresh_scores(qt, c, ix, idx, acc) ==
    IF idx >= Len(ix.ids) THEN [error |-> "none", scores |-> acc]
    ELSE LET s == bm25(qt, idx, ix)
         IN  IF s.error # "none" THEN [error |-> s.error, scores |-> acc]
             ELSE IF s.score <= 0 THEN fresh_scores(qt, c, ix, idx + 1, acc)
             ELSE fresh_scores(qt, c, ix, idx + 1,
                     Append(acc, [score |-> boosted(s.score, qt, c[idx + 1]),
                                  doc_id |-> ix.ids[idx + 1]]))

fresh_search(q, c, n) ==
    IF Malformed(c) THEN [error |-> "AttributeError", results |-> <<>>]
    ELSE
    LET r == fresh_scores(query_terms_of(q), c, fresh_index(c), 0, <<>>)
    IN  IF r.error # "none"
        THEN [error |-> r.error, results |-> <<>>]
        ELSE [error |-> "none",
              results |-> records(truncate(sort_desc(r.scores), n), c)]

(***************************************************************************)
(* Properties.                                                             *)
(***************************************************************************)
\* the statements of the body of _build_bm25_index (lines 140-166)
BuildPcs ==
    {"reset_doc_ids", "reset_doc_texts", "reset_freqs", "reset_doc_lengths",
     "for_doc", "append_doc_texts", "append_freqs", "append_doc_lengths",
     "avgdl", "set_ready"}

\* the positions at which a call has its query terms and ranks or has ranked
RankPcs == {"score_loop", "sort", "done", "raised"}

\* the elements of a list
Range(s) == {s[k] : k \in 1..Len(s)}

\* C1: under every interleaving of concurrent calls on an unbuilt index, the
\* body of _build_bm25_index is executed by at most one of them.
C1_BuildOnce == n_builds <= 1

\* C2: a call that is about to score a document reads the complete index of
\* the corpus (one entry per document, no duplicates, _avgdl computed from all
\* entries), through the list it iterates as well, and no build is in
\* progress meanwhile.
C2_NoHalfBuiltRead ==
    \A t \in Threads :
        (th[t].pc = "score_loop" /\ th[t].idx < Len(heap[th[t].it])) =>
            /\ current_index = fresh_index(corpus)
            /\ heap[th[t].it] = fresh_index(corpus).ids
            /\ \A u \in Threads : th[u].pc \notin BuildPcs

\* C3: whatever calls came before, a call with query q, corpus C and limit n
\* ends as the same call does in a process that has served no call yet: with
\* the ranking of the documents of C for q.
C3_PureFunction ==
    \A t \in Threads :
        /\ th[t].pc = "done" =>
              fresh_search(th[t].query, th[t].corpus, th[t].num_results)
                 = [error |-> "none", results |-> th[t].results]
        /\ th[t].pc = "raised" =>
              fresh_search(th[t].query, th[t].corpus, th[t].num_results).error
                 = th[t].error

\* C4: once the index is built and no build is under way, a call of
\* _build_bm25_index is a no-op: no step changes _doc_ids, _doc_texts, _freqs,
\* _doc_lengths, _avgdl or _bm25_ready and no call enters the body of the
\* build, so the document count and the average document length stay as they
\* are.
C4_BuildIdempotent ==
    [][(bm25_ready /\ \A u \in Threads : th[u].pc \notin BuildPcs) =>
         /\ index' = index
         /\ \A u \in Threads : th'[u].pc \notin BuildPcs]_vars

\* a second call has come back from _build_bm25_index without building
C4_Witness ==
    \E t \in Threads :
        /\ th[t].pc = "score_start"
        /\ bm25_ready
        /\ n_builds = 1
        /\ calls_left = MaxCalls - 2
        /\ Len(heap[doc_ids]) > 0

\* C5: the BM25 score that the ranking loop is about to compute for a
\* document is >= 0, and no record of a returned list has a ranking <= 0.
C5_NonNegative ==
    \A t \in Threads :
        /\ (th[t].pc = "score_loop" /\ th[t].idx < Len(heap[th[t].it])) =>
              bm25_score(th[t].query_terms, th[t].idx).score >= 0
        /\ th[t].pc = "done" =>
              \A r \in 1..Len(th[t].results) : th[t].results[r].ranking > 0

\* C6: a returned list is sorted by descending ranking.
C6_SortedDescending ==
    \A t \in Threads :
        th[t].pc = "done" =>
            \A r \in 1..(Len(th[t].results) - 1) :
                th[t].results[r].ranking >= th[t].results[r + 1].ranking

\* a returned list of two records whose documents were scored in the other
\* order
C6_Witness ==
    \E t \in Threads :
        /\ th[t].pc = "done"
        /\ Len(th[t].results) = 2
        /\ th[t].results[1].ranking > th[t].results[2].ranking
        /\ th[t].scores[1].score < th[t].scores[2].score

\* C7: a returned list has at most num_results records, and when more
\* documents match it has exactly num_results, each a matching document with
\* its score and none scoring less than a matching document left out.
C7_Truncated ==
    \A t \in Threads :
        th[t].pc = "done" =>
            LET n == th[t].num_results
                R == th[t].results
                S == th[t].scores
                kept == {R[r].pid : r \in 1..Len(R)}
            IN  /\ Len(R) <= n
                /\ Len(S) > n =>
                      /\ Len(R) = n
                      /\ Cardinality(kept) = n
                      /\ \A r \in 1..Len(R) :
                            \E k \in 1..Len(S) :
                                /\ S[k].doc_id = R[r].pid
                                /\ S[k].score = R[r].ranking
                      /\ \A r \in 1..Len(R) : \A k \in 1..Len(S) :
                            S[k].doc_id \notin kept => R[r].ranking >= S[k].score

\* two documents match, the second scoring higher, and one record is asked
C7_Witness ==
    \E t \in Threads :
        /\ th[t].pc = "done"
        /\ th[t].num_results = 1
        /\ Len(th[t].scores) = 2
        /\ th[t].scores[1].score < th[t].scores[2].score
        /\ Len(th[t].results) = 1

\* no query term is a token of any document of the corpus
NoTermOccurs(qt, c) ==
    \A d \in 1..Len(c) : Range(qt) \cap Range(tokens_of(c[d])) = {}

\* C8: a call on Documents whose corpus is empty, whose query has no terms or
\* whose terms occur in no document raises nothing, finds no match and
\* returns the empty list.
C8_DegenerateEmpty ==
    \A t \in Threads :
        ( /\ th[t].pc \in RankPcs
          /\ ~Malformed(th[t].corpus)
          /\ \/ th[t].corpus = <<>>
             \/ th[t].query_terms = <<>>
             \/ NoTermOccurs(th[t].query_terms, th[t].corpus) ) =>
            /\ th[t].pc # "raised"
            /\ th[t].scores = <<>>
            /\ th[t].pc = "done" => th[t].results = <<>>

\* C9: scoring never divides by an average document length of 0: no call
\* ends in a division-by-zero error.
C9_ZeroAvgdl ==
    \A t \in Threads : th[t].error # "ZeroDivisionError"

\* a query term is among the normalized tokens of the title
TitleHit(qt, doc) ==
    Range(qt) \cap Range(preprocess_text(OrEmpty(doc.title))) # {}

\* C10: a document kept with BM25 score s has s > 0 and the final score
\* 1.05 * s, above s, when a query term is among the normalized title tokens,
\* and the final score s otherwise. Final scores are in units of
\* 1/(BOOST_DEN * SCALE), BM25 scores in units of 1/SCALE.
C10_TitleBoost ==
    \A t \in Threads :
        th[t].pc = "score_loop" =>
            \A k \in 1..Len(th[t].scores) :
                LET s == th[t].raw[k]
                    final == th[t].scores[k].score
                    doc == Lookup(th[t].corpus, th[t].scores[k].doc_id)
                IN  /\ s > 0
                    /\ IF TitleHit(th[t].query_terms, doc)
                       THEN /\ 100 * final = 105 * s * BOOST_DEN
                            /\ final > s * BOOST_DEN
                       ELSE final = s * BOOST_DEN

\* a kept document whose title holds two different query terms
C10_Witness ==
    \E t \in Threads :
        /\ th[t].pc = "score_loop"
        /\ \E k \in 1..Len(th[t].scores) :
              LET doc == Lookup(th[t].corpus, th[t].scores[k].doc_id)
              IN  Cardinality(Range(th[t].query_terms)
                              \cap Range(preprocess_text(OrEmpty(doc.title)))) >= 2

\* how often x is an element of the list s
Count(x, s) == Cardinality({k \in 1..Len(s) : s[k] = x})

\* C11: for a query made of SYNONYMS keys only, every term of the normalized
\* unexpanded query is among the terms of the normalized expanded query at
\* least as often.
C11_SynonymMonotonic ==
    (fn.op = "query_terms" /\ fn.done) =>
        LET base == preprocess_text(fn.arg)
        IN  \A x \in Range(base) : Count(x, fn.out) >= Count(x, base)

\* a query that holds a key twice has been expanded to more terms
C11_Witness ==
    /\ fn.op = "query_terms" /\ fn.done
    /\ LET base == preprocess_text(fn.arg)
       IN  /\ \E x \in Range(base) : Count(x, base) = 2
           /\ Len(fn.out) > Len(base)

\* the value of simple_stem for the five literal inputs, "cats" staying as
\* it is
StemTable ==
    (<<"p","a","r","t","i","e","s">> :> <<"p","a","r","t","y">>) @@
    (<<"r","u","n","n","i","n","g">> :> <<"r","u","n","n">>) @@
    (<<"p","l","a","y","e","d">> :> <<"p","l","a","y">>) @@
    (<<"c","a","t","s">> :> <<"c","a","t","s">>) @@
    (<<"b","u","s">> :> <<"b","u","s">>)

\* the five literal inputs with "cats" -> "cat"
StemTableAsListed == [StemTable EXCEPT ![<<"c","a","t","s">>] = <<"c","a","t">>]

\* C12: simple_stem maps "parties" to "party", "running" to "runn", "played"
\* to "play", "cats" to "cats" and "bus" to "bus"; the rules are tried in the
\* order length <= 3, "ies", "ing", "ed", trailing "s" of a word longer than
\* 4, and the first that matches decides.
C12_StemLiterals ==
    (fn.op = "simple_stem" /\ fn.done) =>
        LET w == fn.arg
            ies == EndsWith(w, <<"i","e","s">>)
            ing == EndsWith(w, <<"i","n","g">>)
            ed == EndsWith(w, <<"e","d">>)
            s == EndsWith(w, <<"s">>)
        IN  /\ w \in DOMAIN StemTable => fn.out = StemTable[w]
            /\ Len(w) <= 3 => fn.out = w
            /\ (Len(w) > 3 /\ ies) => fn.out = DropLast(w, 3) \o <<"y">>
            /\ (Len(w) > 3 /\ ing) => fn.out = DropLast(w, 3)
            /\ (Len(w) > 3 /\ ed) => fn.out = DropLast(w, 2)
            /\ (Len(w) > 4 /\ s /\ ~ies) => fn.out = DropLast(w, 1)
            /\ (Len(w) > 3 /\ ~ies /\ ~ing /\ ~ed /\ ~(s /\ Len(w) > 4)) =>
                  fn.out = w

\* C12 as stated: the five literal inputs are mapped as listed, "cats" to
\* "cat".
C12_StemLiteralsAsListed ==
    (fn.op = "simple_stem" /\ fn.done /\ fn.arg \in DOMAIN StemTableAsListed) =>
        fn.out = StemTableAsListed[fn.arg]

\* simple_stem has been applied to "cats"
C12_Witness ==
    /\ fn.op = "simple_stem" /\ fn.done
    /\ fn.arg = <<"c","a","t","s">>
    /\ fn.out = fn.arg

\* the call of the scenario: "cheap shoes" on the corpus of P1 and P2
Scenario(t) ==
    /\ th[t].query = QCheapShoes
    /\ Len(th[t].corpus) = 2
    /\ Range(th[t].corpus) = {DocP1, DocP2}

\* C13: the search for "cheap shoes" on the corpus of P1 and P2 raises
\* nothing and, asked for at least one record, returns P1 with a ranking > 0
\* and not P2, no query term being a token of P2.
C13_EndToEnd ==
    \A t \in Threads :
        (th[t].pc \in {"done", "raised"} /\ Scenario(t)) =>
            /\ th[t].pc = "done"
            /\ Range(th[t].query_terms) \cap Range(tokens_of(DocP2)) = {}
            /\ th[t].num_results >= 1 =>
                  /\ \E r \in 1..Len(th[t].results) :
                        /\ th[t].results[r].pid = "P1"
                        /\ th[t].results[r].ranking > 0
                  /\ \A r \in 1..Len(th[t].results) :
                        th[t].results[r].pid # "P2"

\* the scenario has been served with the default limit
C13_Witness ==
    \E t \in Threads :
        /\ th[t].pc = "done"
        /\ Scenario(t)
        /\ th[t].num_results = DefaultLimit
        /\ Len(th[t].results) = 1

\* the sum of the counts of a dict term -> count
RECURSIVE FreqTotal(_)
FreqTotal(f) ==
    IF DOMAIN f = {} THEN 0
    ELSE LET x == CHOOSE y \in DOMAIN f : TRUE
         IN  f[x] + FreqTotal([y \in DOMAIN f \ {x} |-> f[y]])

\* C14: whenever the index is marked built, _doc_ids, _doc_texts, _freqs and
\* _doc_lengths have one entry per corpus document, each length is the
\* number of tokens and the sum of the frequencies of its entry, and _avgdl is
\* the sum of the lengths divided by the number of entries (0 for none).
C14_StatsConsistent ==
    bm25_ready =>
        LET N == Len(heap[doc_ids])
        IN  /\ N = Len(corpus)
            /\ Len(doc_texts) = N /\ Len(freqs) = N /\ Len(doc_lengths) = N
            /\ \A k \in 1..N :
                  /\ doc_lengths[k] = Len(doc_texts[k])
                  /\ doc_lengths[k] = FreqTotal(freqs[k])
            /\ avgdl.num * Max(N, 1) = Sum(doc_lengths) * avgdl.den
            /\ N = 0 => avgdl.num = 0

\* the place of a document in the list _doc_ids that a call iterates
IndexPos(pid, ids) == CHOOSE k \in 1..Len(ids) : ids[k] = pid

\* C18: records of equal ranking follow each other in index order, and the
\* pids of a returned list are those the same call returns in a process that
\* has served no call yet, so that a second search with the same query
\* returns the same sequence.
C18_TiesInIndexOrder ==
    \A t \in Threads :
        th[t].pc = "done" =>
            LET R == th[t].results
                F == fresh_search(th[t].query, th[t].corpus, th[t].num_results).results
            IN  /\ \A r \in 1..(Len(R) - 1) :
                      R[r].ranking = R[r + 1].ranking =>
                          IndexPos(R[r].pid, heap[th[t].it])
                              < IndexPos(R[r + 1].pid, heap[th[t].it])
                /\ [r \in 1..Len(R) |-> R[r].pid] = [r \in 1..Len(F) |-> F[r].pid]

\* a second search on the built index returns two records of equal ranking,
\* P4 indexed before P2
C18_Witness ==
    \E t \in Threads :
        /\ th[t].pc = "done"
        /\ calls_left = 0
        /\ n_builds = 1
        /\ Len(th[t].results) = 2
        /\ th[t].results[1].ranking = th[t].results[2].ranking
        /\ th[t].results[1].pid = "P4"
        /\ th[t].results[2].pid = "P2"

C16_IdfNotNegative ==
    (fn.op = "idf" /\ fn.done) => fn.out >= 0

\* C16 as stated: there are a document count N and a document frequency
\* 0 < n_qi <= N whose idf is below 0.
C16_IdfCanBeNegative ==
    (fn.op = "idf" /\ fn.done) => \E a \in IdfArgs : idf(a[1], a[2]) < 0

\* idf has been computed for a term that every one of several documents
\* holds
C16_Witness ==
    /\ fn.op = "idf" /\ fn.done
    /\ fn.arg[1] = fn.arg[2]
    /\ fn.arg[1] > 1
    /\ fn.out > 0

\* the words of a text that are no stopwords, in their order
RECURSIVE NonStopwords(_)
NonStopwords(words) ==
    IF words = <<>> THEN <<>>
    ELSE IF Head(words) \in STOPWORDS THEN NonStopwords(Tail(words))
    ELSE <<Head(words)>> \o NonStopwords(Tail(words))

\* C20: the tokens of preprocess_text are the stems of the lowercased words
\* of the text that are not in STOPWORDS, word by word, and none is empty.
C20_StemsOfNonStopwords ==
    (fn.op = "preprocess_text" /\ fn.done) =>
        LET kept == NonStopwords(Split(Lower(fn.arg)))
        IN  /\ Len(fn.out) = Len(kept)
            /\ \A k \in 1..Len(kept) :
                  /\ fn.out[k] = simple_stem(kept[k])
                  /\ fn.out[k] # <<>>

\* C20 as stated: no token of preprocess_text is in STOPWORDS and none is
\* empty.
C20_NoStopwordInOutput ==
    (fn.op = "preprocess_text" /\ fn.done) =>
        \A k \in 1..Len(fn.out) :
            fn.out[k] \notin STOPWORDS /\ fn.out[k] # <<>>

\* of two words one was a stopword and was dropped, the other one was
\* stemmed to a stopword and kept
C20_Witness ==
    /\ fn.op = "preprocess_text" /\ fn.done
    /\ Len(Split(Lower(fn.arg))) = 2
    /\ Split(Lower(fn.arg))[1] \in STOPWORDS
    /\ Len(fn.out) = 1
    /\ fn.out[1] \in STOPWORDS

\* the click events of a session and a document
ClicksOf(session_id, pid) ==
    {k \in 1..Len(clicks) : /\ clicks[k].session_id = session_id
                            /\ clicks[k].pid = pid}

\* C17: update_last_click_dwell(session_id, pid, t) sets dwell_time to t on
\* the last click event of the session and the document when that event has
\* none, and changes nothing else: no other event, and nothing at all when
\* the last event has a dwell_time already or there is no such event.
C17_DwellOnLastClick ==
    [][last_op'.op = "update_last_click_dwell" =>
         LET M == ClicksOf(last_op'.session_id, last_op'.pid)
         IN  IF M # {} /\ clicks[Last(M)].dwell_time = None
             THEN clicks' = [clicks EXCEPT ![Last(M)].dwell_time = last_op'.dwell_time]
             ELSE clicks' = clicks]_vars

\* the counter of every document is the number of its click events, and
\* the counters add up to total_clicks
CountersAgree ==
    /\ \A pid \in ClickPids :
          fact_clicks_get(pid) = Cardinality({k \in 1..Len(clicks) : clicks[k].pid = pid})
    /\ DOMAIN fact_clicks \subseteq ClickPids
    /\ FreqTotal(fact_clicks) = total_clicks

\* C19: after any calls of register_click and update_last_click_dwell,
\* fact_clicks[pid] is the number of click events of pid and the counters add
\* up to len(clicks); update_last_click_dwell changes neither the number of
\* click events nor fact_clicks.
C19_ClickCounters ==
    /\ []CountersAgree
    /\ [][last_op'.op = "update_last_click_dwell" =>
             /\ Len(clicks') = Len(clicks)
             /\ fact_clicks' = fact_clicks]_vars

\* a document clicked twice and another one once, and a dwell time set by
\* the latest call
C19_Witness ==
    /\ last_op.op = "update_last_click_dwell"
    /\ Len(clicks) = 3
    /\ \E pid \in ClickPids : fact_clicks_get(pid) = 2
    /\ \E k \in 1..Len(clicks) :
          /\ clicks[k].dwell_time = last_op.dwell_time
          /\ clicks[k].pid = last_op.pid
          /\ clicks[k].session_id = last_op.session_id

====
